---- MODULE Spec2Model ----
(* Model of posts/sakura-visualizations/dev.py: a linear script that loads   *)
(* two wide bloom tables and a region table, reshapes, joins, derives two    *)
(* date metrics, filters and renders.  Every statement of the script is one  *)
(* action; pc is the position of the interpreter in the script.              *)
EXTENDS Integers, Sequences, FiniteSets, TLC

(***************************************************************************)
(* Bounds of the model (sizes of the input files).                         *)
(***************************************************************************)
MaxFirstRows == 1
MaxFullRows == 1
MaxRegionRows == 2

(***************************************************************************)
(* Nullable column values: NULL is the empty tuple, a present value v is    *)
(* <<v>>.  SQL comparisons with NULL are never true.                         *)
(***************************************************************************)
NULL == <<>>
Some(v) == <<v>>
IsNull(x) == x = NULL
NotNull(x) == x # NULL
Val(x) == x[1]

\* SQL equality used as a join predicate: true only for two equal non-null values
SqlEq(a, b) == NotNull(a) /\ NotNull(b) /\ a = b

(***************************************************************************)
(* Strings that the script parses or builds are sequences of characters.    *)
(***************************************************************************)
Digits == <<"0", "1", "2", "3", "4", "5", "6", "7", "8", "9">>

DigitVal(c) == CHOOSE v \in 0..9 : Digits[v + 1] = c

RECURSIVE StrToInt(_)
StrToInt(s) ==
  IF s = <<>> THEN 0
  ELSE 10 * StrToInt(SubSeq(s, 1, Len(s) - 1)) + DigitVal(s[Len(s)])

RECURSIVE IntToStr(_)
IntToStr(n) ==
  IF n < 10 THEN <<Digits[n + 1]>>
  ELSE Append(IntToStr(n \div 10), Digits[(n % 10) + 1])

\* the year columns selected by s.r["1953":"2023"], in file order
FirstYear == 1953
LastYear == 2023
NumYearColumns == LastYear - FirstYear + 1
YearColumns == [j \in 1..NumYearColumns |-> IntToStr(FirstYear + j - 1)]
YearLabels == {YearColumns[j] : j \in 1..NumYearColumns}

\* .cast("int32") of the year label
Int32Max == 2147483647
Int32Min == -Int32Max - 1
CastInt32(s) == IF IsNull(s) THEN NULL ELSE Some(StrToInt(Val(s)))

(***************************************************************************)
(* Dates and date arithmetic.                                               *)
(***************************************************************************)
Date(y, m, d) == [y |-> y, m |-> m, d |-> d]

IsLeap(y) == (y % 4 = 0 /\ y % 100 # 0) \/ y % 400 = 0

DaysInMonth(y, m) ==
  IF m = 2 THEN (IF IsLeap(y) THEN 29 ELSE 28)
  ELSE IF m \in {4, 6, 9, 11} THEN 30 ELSE 31

RECURSIVE DaysBeforeMonth(_, _)
DaysBeforeMonth(y, m) ==
  IF m = 1 THEN 0 ELSE DaysBeforeMonth(y, m - 1) + DaysInMonth(y, m - 1)

DaysBeforeYear(y) ==
  365 * (y - 1) + ((y - 1) \div 4) - ((y - 1) \div 100) + ((y - 1) \div 400)

\* number of the day on the proleptic Gregorian calendar
EpochDay(dt) == DaysBeforeYear(dt.y) + DaysBeforeMonth(dt.y, dt.m) + dt.d

\* ibis.date(<string>) applied to year.cast('string') + '-01-01'
JanFirstString(year) == IntToStr(year) \o <<"-", "0", "1", "-", "0", "1">>
ParseDate(s) ==
  Date(StrToInt(SubSeq(s, 1, Len(s) - 6)),
       StrToInt(SubSeq(s, Len(s) - 4, Len(s) - 3)),
       StrToInt(SubSeq(s, Len(s) - 1, Len(s))))

\* an interval of n days
Interval(n) == [unit |-> "D", n |-> n]

\* a mutant of DateSub: the operands are swapped
DateSubSwapped(a, b) ==
  IF IsNull(a) \/ IsNull(b) THEN NULL
  ELSE Some(Interval(EpochDay(Val(b)) - EpochDay(Val(a))))

\* date - date: an interval in days, NULL when an operand is NULL
DateSub(a, b) ==
  IF IsNull(a) \/ IsNull(b) THEN NULL
  ELSE Some(Interval(EpochDay(Val(a)) - EpochDay(Val(b))))

\* .cast('interval("D")').cast("int32")
IntervalToInt32(iv) == IF IsNull(iv) THEN NULL ELSE Some(Val(iv).n)

(***************************************************************************)
(* Tables are sequences of rows (records).                                  *)
(***************************************************************************)
\* concatenation of a sequence of sequences (by halves, to keep the
\* evaluation shallow)
RECURSIVE Flatten(_)
Flatten(ss) ==
  IF ss = <<>> THEN <<>>
  ELSE IF Len(ss) = 1 THEN ss[1]
  ELSE LET h == Len(ss) \div 2
       IN Flatten(SubSeq(ss, 1, h)) \o Flatten(SubSeq(ss, h + 1, Len(ss)))

Map(t, F(_)) == [i \in 1..Len(t) |-> F(t[i])]

\* .drop("30 Year Average 1981-2010", "Notes")
\* .rename(location = "Site Name", is_currently_observed = "Currently Being Observed")
DropRename(w) ==
  [location |-> w.SiteName,
   is_currently_observed |-> w.CurrentlyBeingObserved,
   years |-> w.years]

\* a mutant of PivotRow: null cells are not emitted
PivotRowDropNull(r) ==
  SelectSeq([j \in 1..NumYearColumns |->
               [location |-> r.location,
                is_currently_observed |-> r.is_currently_observed,
                year |-> Some(YearColumns[j]),
                value |-> r.years[YearColumns[j]]]],
            LAMBDA p : NotNull(p.value))

\* .pivot_longer(s.r["1953":"2023"], names_to = "year", values_to = <value>):
\* one output row per input row and selected column, null cells included
PivotRow(r) ==
  [j \in 1..NumYearColumns |->
     [location |-> r.location,
      is_currently_observed |-> r.is_currently_observed,
      year |-> Some(YearColumns[j]),
      value |-> r.years[YearColumns[j]]]]

PivotLonger(t) == Flatten(Map(t, PivotRow))

FirstBloomRow(p) ==
  [location |-> p.location, is_currently_observed |-> p.is_currently_observed,
   year |-> p.year, first_bloom |-> p.value]

FullBloomRow(p) ==
  [location |-> p.location, is_currently_observed |-> p.is_currently_observed,
   year |-> p.year, full_bloom |-> p.value]

FirstBloomLong(t) == Map(PivotLonger(Map(t, DropRename)), FirstBloomRow)
FullBloomLong(t) == Map(PivotLonger(Map(t, DropRename)), FullBloomRow)

(***************************************************************************)
(* first_bloom_long.outer_join(full_bloom_long,                             *)
(*     ["location", "year", "is_currently_observed"])                       *)
(* The key columns of the right table collide with those of the left table  *)
(* and are emitted with the suffix _right.                                   *)
(***************************************************************************)
KeysMatch(l, r) ==
  /\ SqlEq(l.location, r.location)
  /\ SqlEq(l.year, r.year)
  /\ SqlEq(l.is_currently_observed, r.is_currently_observed)

Matched(l, r) ==
  [location |-> l.location, year |-> l.year,
   is_currently_observed |-> l.is_currently_observed,
   first_bloom |-> l.first_bloom,
   location_right |-> r.location, year_right |-> r.year,
   is_currently_observed_right |-> r.is_currently_observed,
   full_bloom |-> r.full_bloom]

LeftOnly(l) ==
  [location |-> l.location, year |-> l.year,
   is_currently_observed |-> l.is_currently_observed,
   first_bloom |-> l.first_bloom,
   location_right |-> NULL, year_right |-> NULL,
   is_currently_observed_right |-> NULL,
   full_bloom |-> NULL]

RightOnly(r) ==
  [location |-> NULL, year |-> NULL,
   is_currently_observed |-> NULL,
   first_bloom |-> NULL,
   location_right |-> r.location, year_right |-> r.year,
   is_currently_observed_right |-> r.is_currently_observed,
   full_bloom |-> r.full_bloom]

OuterJoin(L, R) ==
  LET leftPart(l) ==
        LET ms == SelectSeq(R, LAMBDA r : KeysMatch(l, r))
        IN IF ms = <<>> THEN <<LeftOnly(l)>>
           ELSE [k \in 1..Len(ms) |-> Matched(l, ms[k])]
      unmatchedRight ==
        SelectSeq(R, LAMBDA r : \A i \in 1..Len(L) : ~KeysMatch(L[i], r))
  IN Flatten(Map(L, leftPart)) \o Map(unmatchedRight, RightOnly)

\* .select(~s.contains("_right"))
SelectNotRight(j) ==
  [location |-> j.location, year |-> j.year,
   is_currently_observed |-> j.is_currently_observed,
   first_bloom |-> j.first_bloom, full_bloom |-> j.full_bloom]

JoinBloom(L, R) == Map(OuterJoin(L, R), SelectNotRight)

(***************************************************************************)
(* .mutate(year = _.year.cast("int32"))                                     *)
(* .mutate(days_to_full_bloom = ..., days_from_first_to_full_bloom = ...)   *)
(***************************************************************************)
JanFirst(year) ==
  IF IsNull(year) THEN NULL ELSE Some(ParseDate(JanFirstString(Val(year))))

DeriveRow(j) ==
  LET year == CastInt32(j.year)
  IN [location |-> j.location, year |-> year,
      is_currently_observed |-> j.is_currently_observed,
      first_bloom |-> j.first_bloom, full_bloom |-> j.full_bloom,
      days_to_full_bloom |->
        IntervalToInt32(DateSub(j.full_bloom, JanFirst(year))),
      days_from_first_to_full_bloom |-> DateSub(j.full_bloom, j.first_bloom)]

Derive(t) == Map(t, DeriveRow)

(***************************************************************************)
(* The region table and its override.                                       *)
(***************************************************************************)
southern_islands ==
  {"Naze", "Ishigaki Island", "Miyakojima", "Naha", "Minami Daito Island"}

\* _.location.isin(southern_islands): NULL for a NULL location, so the
\* case expression falls through to its else branch
IsSouthern(location) == NotNull(location) /\ Val(location) \in southern_islands

\* a mutant of OverrideRow: the region of the file is kept
OverrideRowKeepsRegion(g) == [location |-> g.location, region |-> g.region]

\* a mutant of OverrideRow: every row is overridden
OverrideRowAll(g) == [location |-> g.location, region |-> Some("Ryukyu Islands")]

OverrideRow(g) ==
  [location |-> g.location,
   region |-> IF IsSouthern(g.location) THEN Some("Ryukyu Islands") ELSE g.region]

OverrideRegion(t) == Map(t, OverrideRow)

(***************************************************************************)
(* sakura_dates.left_join(locations_regions, "location")                    *)
(***************************************************************************)
WithRegion(d, location_right, region) ==
  [location |-> d.location, year |-> d.year,
   is_currently_observed |-> d.is_currently_observed,
   first_bloom |-> d.first_bloom, full_bloom |-> d.full_bloom,
   days_to_full_bloom |-> d.days_to_full_bloom,
   days_from_first_to_full_bloom |-> d.days_from_first_to_full_bloom,
   location_right |-> location_right, region |-> region]

\* a mutant of LeftJoin: an inner join, unmatched left rows are dropped
InnerJoin(D, G) ==
  LET part(d) ==
        LET ms == SelectSeq(G, LAMBDA g : SqlEq(d.location, g.location))
        IN [k \in 1..Len(ms) |-> WithRegion(d, ms[k].location, ms[k].region)]
  IN Flatten(Map(D, part))

LeftJoin(D, G) ==
  LET part(d) ==
        LET ms == SelectSeq(G, LAMBDA g : SqlEq(d.location, g.location))
        IN IF ms = <<>> THEN <<WithRegion(d, NULL, NULL)>>
           ELSE [k \in 1..Len(ms) |-> WithRegion(d, ms[k].location, ms[k].region)]
  IN Flatten(Map(D, part))

(***************************************************************************)
(* .filter([_.is_currently_observed == True, _.year >= 1954,                *)
(*          _.days_to_full_bloom.notnull(),                                  *)
(*          _.days_from_first_to_full_bloom.notnull()])                      *)
(***************************************************************************)
MinYear == 1954

\* a mutant of Keeps: the year bound is off by one
KeepsFrom1953(r) ==
  /\ NotNull(r.is_currently_observed) /\ Val(r.is_currently_observed) = TRUE
  /\ NotNull(r.year) /\ Val(r.year) >= MinYear - 1
  /\ NotNull(r.days_to_full_bloom)
  /\ NotNull(r.days_from_first_to_full_bloom)

Keeps(r) ==
  /\ NotNull(r.is_currently_observed) /\ Val(r.is_currently_observed) = TRUE
  /\ NotNull(r.year) /\ Val(r.year) >= MinYear
  /\ NotNull(r.days_to_full_bloom)
  /\ NotNull(r.days_from_first_to_full_bloom)

Filter(t) == SelectSeq(t, Keeps)

(***************************************************************************)
(* Input files.  A bloom file has the columns Site Name, Currently Being    *)
(* Observed, 30 Year Average 1981-2010, Notes and one column per year; the   *)
(* region file has the columns location and region.                          *)
(***************************************************************************)
Cells(f) ==
  [l \in YearLabels |->
     IF StrToInt(l) \in DOMAIN f THEN Some(f[StrToInt(l)]) ELSE NULL]

WideRow(site, observed, f) ==
  [SiteName |-> Some(site), CurrentlyBeingObserved |-> Some(observed),
   Avg30 |-> NULL, Notes |-> NULL, years |-> Cells(f)]

\* rows a bloom file or the region file may hold, in file order
FirstBloomFileRows ==
  << WideRow("Tokyo", TRUE, (1953 :> Date(1953, 3, 30)) @@ (1980 :> Date(1980, 3, 20))
                              @@ (1981 :> Date(1981, 4, 2)) @@ (1991 :> Date(1991, 4, 1))),
     WideRow("Naha", TRUE, (2020 :> Date(2020, 3, 1))),
     WideRow("Kyoto", FALSE, (1980 :> Date(1980, 3, 25))) >>

FullBloomFileRows ==
  << WideRow("Tokyo", TRUE, (1953 :> Date(1953, 4, 5)) @@ (1980 :> Date(1980, 4, 1))
                              @@ (1981 :> Date(1981, 3, 28)) @@ (1990 :> Date(1990, 4, 3))),
     WideRow("Naha", TRUE, (2020 :> Date(2020, 3, 15))),
     WideRow("Kyoto", FALSE, (1980 :> Date(1980, 4, 2))) >>

RegionFileRows ==
  << [location |-> Some("Naha"), region |-> Some("Kyushu")],
     [location |-> Some("Naha"), region |-> Some("Okinawa")],
     [location |-> Some("Tokyo"), region |-> Some("Honshu")],
     [location |-> NULL, region |-> Some("Hokkaido")] >>

\* the files of at most n rows taken from rows, in the order of rows
FilesUpTo(rows, n) ==
  LET picks == {ix \in UNION {[1..k -> 1..Len(rows)] : k \in 0..n} :
                  \A a, b \in 1..Len(ix) : a < b => ix[a] < ix[b]}
  IN {[k \in 1..Len(ix) |-> rows[ix[k]]] : ix \in picks}

(***************************************************************************)
(* State of a run of the script.                                            *)
(***************************************************************************)
VARIABLES
  file_first, file_full, file_region,   \* contents of the three data files
  sakura_first_bloom_dates, sakura_full_bloom_dates,
  first_bloom_long, full_bloom_long,
  joined,             \* value of the join chain before the mutate calls
  sakura_dates,
  locations_regions,
  with_region,        \* value of the left join before the filter call
  sakura_data,
  rendered,           \* the chart object has been produced
  pc,                 \* statement about to run, or "done" / "failed"
  executed,           \* statements that have completed, in completion order
  failed_at           \* statement that raised, or "none"

vars ==
  <<file_first, file_full, file_region,
    sakura_first_bloom_dates, sakura_full_bloom_dates,
    first_bloom_long, full_bloom_long, joined, sakura_dates,
    locations_regions, with_region, sakura_data, rendered,
    pc, executed, failed_at>>

files == <<file_first, file_full, file_region>>

\* the statements of the script in source order
Script ==
  <<"load_bloom", "reshape", "outer_join", "derive", "load_region",
    "override", "left_join", "filter", "register_font", "render">>

Position(step) == CHOOSE i \in 1..Len(Script) : Script[i] = step

After(step) ==
  IF Position(step) = Len(Script) THEN "done" ELSE Script[Position(step) + 1]

Init ==
  /\ file_first \in FilesUpTo(FirstBloomFileRows, MaxFirstRows)
  /\ file_full \in FilesUpTo(FullBloomFileRows, MaxFullRows)
  /\ file_region \in FilesUpTo(RegionFileRows, MaxRegionRows)
  /\ sakura_first_bloom_dates = <<>>
  /\ sakura_full_bloom_dates = <<>>
  /\ first_bloom_long = <<>>
  /\ full_bloom_long = <<>>
  /\ joined = <<>>
  /\ sakura_dates = <<>>
  /\ locations_regions = <<>>
  /\ with_region = <<>>
  /\ sakura_data = <<>>
  /\ rendered = FALSE
  /\ pc = Script[1]
  /\ executed = <<>>
  /\ failed_at = "none"

\* the statement at pc completes and control moves to the next statement
Completes(step) ==
  /\ pc = step
  /\ pc' = After(step)
  /\ executed' = Append(executed, step)
  /\ UNCHANGED <<files, failed_at>>

\* lines 8-9
LoadBloom ==
  /\ Completes("load_bloom")
  /\ sakura_first_bloom_dates' = file_first
  /\ sakura_full_bloom_dates' = file_full
  /\ UNCHANGED <<first_bloom_long, full_bloom_long, joined, sakura_dates,
                 locations_regions, with_region, sakura_data, rendered>>

\* lines 11-21
Reshape ==
  /\ Completes("reshape")
  /\ first_bloom_long' = FirstBloomLong(sakura_first_bloom_dates)
  /\ full_bloom_long' = FullBloomLong(sakura_full_bloom_dates)
  /\ UNCHANGED <<sakura_first_bloom_dates, sakura_full_bloom_dates, joined,
                 sakura_dates, locations_regions, with_region, sakura_data,
                 rendered>>

\* lines 23-24
OuterJoinStep ==
  /\ Completes("outer_join")
  /\ joined' = JoinBloom(first_bloom_long, full_bloom_long)
  /\ UNCHANGED <<sakura_first_bloom_dates, sakura_full_bloom_dates,
                 first_bloom_long, full_bloom_long, sakura_dates,
                 locations_regions, with_region, sakura_data, rendered>>

\* lines 25-28
DeriveStep ==
  /\ Completes("derive")
  /\ sakura_dates' = Derive(joined)
  /\ UNCHANGED <<sakura_first_bloom_dates, sakura_full_bloom_dates,
                 first_bloom_long, full_bloom_long, joined,
                 locations_regions, with_region, sakura_data, rendered>>

\* line 30
LoadRegion ==
  /\ Completes("load_region")
  /\ locations_regions' = file_region
  /\ UNCHANGED <<sakura_first_bloom_dates, sakura_full_bloom_dates,
                 first_bloom_long, full_bloom_long, joined, sakura_dates,
                 with_region, sakura_data, rendered>>

\* lines 32-38
Override ==
  /\ Completes("override")
  /\ locations_regions' = OverrideRegion(locations_regions)
  /\ UNCHANGED <<sakura_first_bloom_dates, sakura_full_bloom_dates,
                 first_bloom_long, full_bloom_long, joined, sakura_dates,
                 with_region, sakura_data, rendered>>

\* lines 40-41
LeftJoinStep ==
  /\ Completes("left_join")
  /\ with_region' = LeftJoin(sakura_dates, locations_regions)
  /\ UNCHANGED <<sakura_first_bloom_dates, sakura_full_bloom_dates,
                 first_bloom_long, full_bloom_long, joined, sakura_dates,
                 locations_regions, sakura_data, rendered>>

\* lines 42-46
FilterStep ==
  /\ Completes("filter")
  /\ sakura_data' = Filter(with_region)
  /\ UNCHANGED <<sakura_first_bloom_dates, sakura_full_bloom_dates,
                 first_bloom_long, full_bloom_long, joined, sakura_dates,
                 locations_regions, with_region, rendered>>

\* lines 48-56
RegisterFont ==
  /\ Completes("register_font")
  /\ UNCHANGED <<sakura_first_bloom_dates, sakura_full_bloom_dates,
                 first_bloom_long, full_bloom_long, joined, sakura_dates,
                 locations_regions, with_region, sakura_data, rendered>>

\* lines 58-86
Render ==
  /\ Completes("render")
  /\ rendered' = TRUE
  /\ UNCHANGED <<sakura_first_bloom_dates, sakura_full_bloom_dates,
                 first_bloom_long, full_bloom_long, joined, sakura_dates,
                 locations_regions, with_region, sakura_data>>

\* a mutant of Raises: the exception is swallowed and the script goes on
RaisesAndContinues ==
  /\ pc \notin {"done", "failed"}
  /\ failed_at' = pc
  /\ pc' = After(pc)
  /\ UNCHANGED <<files, sakura_first_bloom_dates, sakura_full_bloom_dates,
                 first_bloom_long, full_bloom_long, joined, sakura_dates,
                 locations_regions, with_region, sakura_data, rendered,
                 executed>>

\* The statement at pc raises (file missing or malformed, column conflict in
\* a pivot or join, font file missing).  The script has no try/except: the
\* exception ends the process.
Raises ==
  /\ pc \notin {"done", "failed"}
  /\ failed_at' = pc
  /\ pc' = "failed"
  /\ UNCHANGED <<files, sakura_first_bloom_dates, sakura_full_bloom_dates,
                 first_bloom_long, full_bloom_long, joined, sakura_dates,
                 locations_regions, with_region, sakura_data, rendered,
                 executed>>

Next ==
  \/ LoadBloom
  \/ Reshape
  \/ OuterJoinStep
  \/ DeriveStep
  \/ LoadRegion
  \/ Override
  \/ LeftJoinStep
  \/ FilterStep
  \/ RegisterFont
  \/ Render
  \/ Raises

Spec == Init /\ [][Next]_vars

TypeOK ==
  /\ pc \in {Script[i] : i \in 1..Len(Script)} \cup {"done", "failed"}
  /\ rendered \in BOOLEAN

(***************************************************************************)
(* Vocabulary of the properties.                                            *)
(***************************************************************************)
Done(step) == \E i \in 1..Len(executed) : executed[i] = step

\* the statement has completed and no statement has run since
JustCompleted(step) ==
  /\ executed # <<>>
  /\ executed[Len(executed)] = step
  /\ failed_at = "none"

IsPrefix(a, b) == Len(a) <= Len(b) /\ \A i \in 1..Len(a) : a[i] = b[i]

\* Calendar reference, independent of EpochDay: the dates of a range of years
\* and the number of calendar dates from one date up to another.
CalendarMonthLength(y, m) ==
  LET common == <<31, 28, 31, 30, 31, 30, 31, 31, 30, 31, 30, 31>>
  IN IF m = 2 /\ y % 4 = 0 /\ (y % 100 # 0 \/ y % 400 = 0) THEN 29 ELSE common[m]

CalendarDates(ys) ==
  {x \in [y : ys, m : 1..12, d : 1..31] : x.d <= CalendarMonthLength(x.y, x.m)}

Earlier(a, b) ==
  \/ a.y < b.y
  \/ a.y = b.y /\ a.m < b.m
  \/ a.y = b.y /\ a.m = b.m /\ a.d < b.d

DaysBetween(a, b) ==
  IF Earlier(b, a)
  THEN 0 - Cardinality({x \in CalendarDates(b.y..a.y) : ~Earlier(x, b) /\ Earlier(x, a)})
  ELSE Cardinality({x \in CalendarDates(a.y..b.y) : ~Earlier(x, a) /\ Earlier(x, b)})

\* the columns of a row of the left join that come from sakura_dates
BloomColumns(w) ==
  [location |-> w.location, year |-> w.year,
   is_currently_observed |-> w.is_currently_observed,
   first_bloom |-> w.first_bloom, full_bloom |-> w.full_bloom,
   days_to_full_bloom |-> w.days_to_full_bloom,
   days_from_first_to_full_bloom |-> w.days_from_first_to_full_bloom]

PassesFourConditions(r) ==
  /\ r.is_currently_observed = Some(TRUE)
  /\ NotNull(r.year) /\ Val(r.year) >= 1954
  /\ NotNull(r.days_to_full_bloom)
  /\ NotNull(r.days_from_first_to_full_bloom)

FiveSouthernLocations ==
  {Some("Naze"), Some("Ishigaki Island"), Some("Miyakojima"), Some("Naha"),
   Some("Minami Daito Island")}

(***************************************************************************)
(* C1: every row of the final table sakura_data has                         *)
(* is_currently_observed = true, year >= 1954, days_to_full_bloom not null  *)
(* and days_from_first_to_full_bloom not null.                               *)
(***************************************************************************)
C1_FinalRowsPassFilter ==
  \A i \in 1..Len(sakura_data) : PassesFourConditions(sakura_data[i])

\* the filter has kept a row and has removed an observed row of 1953 that
\* has both metrics
C1_Witness ==
  /\ Done("filter")
  /\ sakura_data # <<>>
  /\ \E k \in 1..Len(with_region) :
       /\ with_region[k].is_currently_observed = Some(TRUE)
       /\ with_region[k].year = Some(1953)
       /\ NotNull(with_region[k].days_to_full_bloom)
       /\ NotNull(with_region[k].days_from_first_to_full_bloom)

(***************************************************************************)
(* C2 as stated: every row of the final table whose location is one of the  *)
(* five southern locations has region "Ryukyu Islands", also when the       *)
(* region file has no row for that location.                                 *)
(***************************************************************************)
C2_Original ==
  \A i \in 1..Len(sakura_data) :
    sakura_data[i].location \in FiveSouthernLocations
      => sakura_data[i].region = Some("Ryukyu Islands")

(***************************************************************************)
(* C2 as amended: a row of the final table whose location is one of the     *)
(* five southern locations has region "Ryukyu Islands" when the region file *)
(* has a row for that location, whatever region that row gives, and a null  *)
(* region when the region file has no row for that location.                 *)
(***************************************************************************)
C2_SouthernRegion ==
  \A i \in 1..Len(sakura_data) :
    sakura_data[i].location \in FiveSouthernLocations
      => IF \E g \in 1..Len(file_region) :
              file_region[g].location = sakura_data[i].location
         THEN sakura_data[i].region = Some("Ryukyu Islands")
         ELSE sakura_data[i].region = NULL

\* a final row of Naha whose region in the file is Kyushu
C2_Witness ==
  /\ Done("filter")
  /\ \E i \in 1..Len(sakura_data) :
       /\ sakura_data[i].location = Some("Naha")
       /\ sakura_data[i].region = Some("Ryukyu Islands")
  /\ \E g \in 1..Len(file_region) :
       /\ file_region[g].location = Some("Naha")
       /\ file_region[g].region = Some("Kyushu")

(***************************************************************************)
(* C3 as stated: after the outer join and the removal of the _right         *)
(* columns, every (location, year) pair of first_bloom_long or of           *)
(* full_bloom_long is held by the location and year columns of some joined  *)
(* row, and the joined table has at least as many rows as the larger input. *)
(***************************************************************************)
C3_Original ==
  Done("outer_join") =>
    /\ \A i \in 1..Len(first_bloom_long) : \E k \in 1..Len(joined) :
         /\ joined[k].location = first_bloom_long[i].location
         /\ joined[k].year = first_bloom_long[i].year
    /\ \A i \in 1..Len(full_bloom_long) : \E k \in 1..Len(joined) :
         /\ joined[k].location = full_bloom_long[i].location
         /\ joined[k].year = full_bloom_long[i].year
    /\ Len(joined) >= Len(first_bloom_long)
    /\ Len(joined) >= Len(full_bloom_long)

(***************************************************************************)
(* C4 as stated: in every row of sakura_dates, days_to_full_bloom is null   *)
(* when full_bloom is null and is otherwise the number of days from         *)
(* January 1 of the row's year to full_bloom (74 for 2020-03-15 in 2020,    *)
(* 91 for 1980-04-01 in 1980).                                               *)
(***************************************************************************)
C4_Original ==
  \A i \in 1..Len(sakura_dates) :
    LET r == sakura_dates[i]
    IN /\ IsNull(r.full_bloom) => IsNull(r.days_to_full_bloom)
       /\ NotNull(r.full_bloom) =>
            /\ NotNull(r.year)
            /\ NotNull(r.days_to_full_bloom)
            /\ Val(r.days_to_full_bloom) =
                 DaysBetween(Date(Val(r.year), 1, 1), Val(r.full_bloom))
       /\ r.full_bloom = Some(Date(2020, 3, 15)) => r.days_to_full_bloom = Some(74)
       /\ r.full_bloom = Some(Date(1980, 4, 1)) => r.days_to_full_bloom = Some(91)

(***************************************************************************)
(* C5: in every row of sakura_dates, days_from_first_to_full_bloom is null  *)
(* when first_bloom or full_bloom is null and is otherwise the number of    *)
(* days from first_bloom to full_bloom (12 from 1980-03-20 to 1980-04-01).  *)
(***************************************************************************)
C5_DaysFromFirstToFull ==
  \A i \in 1..Len(sakura_dates) :
    LET r == sakura_dates[i]
    IN /\ (IsNull(r.first_bloom) \/ IsNull(r.full_bloom))
            => IsNull(r.days_from_first_to_full_bloom)
       /\ (NotNull(r.first_bloom) /\ NotNull(r.full_bloom)) =>
            /\ NotNull(r.days_from_first_to_full_bloom)
            /\ Val(r.days_from_first_to_full_bloom).unit = "D"
            /\ Val(r.days_from_first_to_full_bloom).n =
                 DaysBetween(Val(r.first_bloom), Val(r.full_bloom))
       /\ (r.first_bloom = Some(Date(1980, 3, 20)) /\ r.full_bloom = Some(Date(1980, 4, 1)))
            => Val(r.days_from_first_to_full_bloom).n = 12

\* the derive step has produced the row of the example, a row with a full
\* bloom before the first bloom and a row with only one of the two dates
C5_Witness ==
  /\ Done("derive")
  /\ \E i \in 1..Len(sakura_dates) :
       /\ sakura_dates[i].first_bloom = Some(Date(1980, 3, 20))
       /\ sakura_dates[i].full_bloom = Some(Date(1980, 4, 1))
       /\ sakura_dates[i].days_from_first_to_full_bloom = Some(Interval(12))
  /\ \E i \in 1..Len(sakura_dates) :
       /\ NotNull(sakura_dates[i].days_from_first_to_full_bloom)
       /\ Val(sakura_dates[i].days_from_first_to_full_bloom).n < 0
  /\ \E i \in 1..Len(sakura_dates) :
       /\ IsNull(sakura_dates[i].first_bloom)
       /\ NotNull(sakura_dates[i].full_bloom)
       /\ IsNull(sakura_dates[i].days_from_first_to_full_bloom)

(***************************************************************************)
(* C6: when the left join with the region table completes it has kept every *)
(* row of sakura_dates (as many times as it occurs, at least), and a row    *)
(* whose location has no row in the region table is kept with a null        *)
(* region; when the filter completes, every row of the left join that       *)
(* passes the four filter conditions is in the final table.                  *)
(***************************************************************************)
C6_LeftJoinKeepsBloomRows ==
  /\ JustCompleted("left_join") =>
       /\ Len(with_region) >= Len(sakura_dates)
       /\ \A i \in 1..Len(sakura_dates) :
            /\ Cardinality({k \in 1..Len(with_region) :
                              BloomColumns(with_region[k]) = sakura_dates[i]})
                 >= Cardinality({m \in 1..Len(sakura_dates) :
                                   sakura_dates[m] = sakura_dates[i]})
            /\ (\A g \in 1..Len(locations_regions) :
                  ~SqlEq(sakura_dates[i].location, locations_regions[g].location))
                 => \E k \in 1..Len(with_region) :
                      /\ BloomColumns(with_region[k]) = sakura_dates[i]
                      /\ with_region[k].region = NULL
  /\ JustCompleted("filter") =>
       \A k \in 1..Len(with_region) :
         PassesFourConditions(with_region[k])
           => Cardinality({m \in 1..Len(sakura_data) : sakura_data[m] = with_region[k]})
                = Cardinality({m \in 1..Len(with_region) : with_region[m] = with_region[k]})

\* a bloom row of a location that the region table lacks is in the final
\* table with a null region
C6_Witness ==
  /\ JustCompleted("filter")
  /\ \E i \in 1..Len(sakura_data) :
       /\ NotNull(sakura_data[i].location)
       /\ IsNull(sakura_data[i].region)
       /\ \A g \in 1..Len(locations_regions) :
            locations_regions[g].location # sakura_data[i].location

(***************************************************************************)
(* C7: when the reshape completes it has emitted one long row per input row *)
(* and year column: each long table has 71 times as many rows as its wide   *)
(* table, and the row of an input row and a year is emitted with a null     *)
(* value when the cell is empty.                                             *)
(***************************************************************************)
C7_OneRowPerCell ==
  JustCompleted("reshape") =>
    /\ Len(first_bloom_long) = 71 * Len(sakura_first_bloom_dates)
    /\ Len(full_bloom_long) = 71 * Len(sakura_full_bloom_dates)
    /\ \A i \in 1..Len(sakura_first_bloom_dates) : \A l \in YearLabels :
         LET w == sakura_first_bloom_dates[i]
             long == [location |-> w.SiteName,
                      is_currently_observed |-> w.CurrentlyBeingObserved,
                      year |-> Some(l), first_bloom |-> w.years[l]]
         IN Cardinality({k \in 1..Len(first_bloom_long) : first_bloom_long[k] = long})
              = Cardinality({m \in 1..Len(sakura_first_bloom_dates) :
                               sakura_first_bloom_dates[m] = w})
    /\ \A i \in 1..Len(sakura_full_bloom_dates) : \A l \in YearLabels :
         LET w == sakura_full_bloom_dates[i]
             long == [location |-> w.SiteName,
                      is_currently_observed |-> w.CurrentlyBeingObserved,
                      year |-> Some(l), full_bloom |-> w.years[l]]
         IN Cardinality({k \in 1..Len(full_bloom_long) : full_bloom_long[k] = long})
              = Cardinality({m \in 1..Len(sakura_full_bloom_dates) :
                               sakura_full_bloom_dates[m] = w})

\* both wide tables have a row, and the long tables hold rows with and
\* without a value
C7_Witness ==
  /\ JustCompleted("reshape")
  /\ sakura_first_bloom_dates # <<>>
  /\ sakura_full_bloom_dates # <<>>
  /\ \E k \in 1..Len(first_bloom_long) : IsNull(first_bloom_long[k].first_bloom)
  /\ \E k \in 1..Len(first_bloom_long) : NotNull(first_bloom_long[k].first_bloom)
  /\ \E k \in 1..Len(full_bloom_long) : IsNull(full_bloom_long[k].full_bloom)

(***************************************************************************)
(* C8 as stated: in both reshaped tables year is one of the labels "1953"   *)
(* to "2023", and after the cast every row of the joined table has a year   *)
(* that is a 4-byte integer between 1953 and 2023.                           *)
(***************************************************************************)
C8_Original ==
  /\ \A k \in 1..Len(first_bloom_long) :
       \E y \in 1953..2023 : first_bloom_long[k].year = Some(IntToStr(y))
  /\ \A k \in 1..Len(full_bloom_long) :
       \E y \in 1953..2023 : full_bloom_long[k].year = Some(IntToStr(y))
  /\ \A i \in 1..Len(sakura_dates) :
       /\ NotNull(sakura_dates[i].year)
       /\ Val(sakura_dates[i].year) \in Int32Min..Int32Max
       /\ Val(sakura_dates[i].year) \in 1953..2023

(***************************************************************************)
(* C9 as stated: the stages run in the order load, reshape, join, derive,   *)
(* filter, render (no statement of an earlier stage runs after a statement  *)
(* of a later stage), each statement runs at most once, and a statement     *)
(* that raises ends the run.                                                 *)
(***************************************************************************)
StageRank(step) ==
  CASE step \in {"load_bloom", "load_region"} -> 1
    [] step = "reshape" -> 2
    [] step \in {"outer_join", "left_join"} -> 3
    [] step \in {"derive", "override"} -> 4
    [] step = "filter" -> 5
    [] step \in {"register_font", "render"} -> 6

FailureEndsRun ==
  /\ \A i, j \in 1..Len(executed) : i # j => executed[i] # executed[j]
  /\ pc = (IF failed_at # "none" THEN "failed"
           ELSE IF Len(executed) = Len(Script) THEN "done"
           ELSE Script[Len(executed) + 1])
  /\ failed_at # "none" => failed_at = Script[Len(executed) + 1]
  /\ rendered <=> Done("render")
  /\ rendered => Done("load_bloom") /\ Done("load_region")

C9_Original ==
  /\ \A i, j \in 1..Len(executed) :
       i < j => StageRank(executed[i]) <= StageRank(executed[j])
  /\ FailureEndsRun

(***************************************************************************)
(* C9 as amended: the statements run once each in source order - load the   *)
(* bloom files, reshape, outer join, derive, load the region file, region   *)
(* override, left join, filter, font registration, render - and a statement *)
(* that raises ends the run: nothing is retried, no later statement runs,   *)
(* and the renderer never runs after a failed load.                          *)
(***************************************************************************)
C9_SourceOrderAndFailure ==
  /\ IsPrefix(executed, Script)
  /\ FailureEndsRun

\* the load of the region file has raised after the derive step has run
C9_Witness ==
  /\ pc = "failed"
  /\ failed_at = "load_region"
  /\ Done("derive")
  /\ ~rendered

(***************************************************************************)
(* C10: the override keeps the number and the order of the rows of the      *)
(* region table, keeps every location, and keeps the region of every row    *)
(* whose location is not one of the five southern locations.                 *)
(***************************************************************************)
C10_OverrideFrame ==
  Done("override") =>
    /\ Len(locations_regions) = Len(file_region)
    /\ \A g \in 1..Len(file_region) :
         /\ locations_regions[g].location = file_region[g].location
         /\ file_region[g].location \notin FiveSouthernLocations
              => locations_regions[g].region = file_region[g].region

\* the override has changed the region of Naha and has met a row of Tokyo
C10_Witness ==
  /\ Done("override")
  /\ \E g \in 1..Len(file_region) :
       /\ file_region[g].location = Some("Tokyo")
       /\ locations_regions[g].region = Some("Honshu")
  /\ \E g \in 1..Len(file_region) :
       /\ file_region[g].location = Some("Naha")
       /\ locations_regions[g].region # file_region[g].region
====
